---- MODULE Spec2Model ----
(***************************************************************************)
(* Model of analytics-integration.js: the wrappers the script installs     *)
(* around the game's operations (startGame, startReflexMode,               *)
(* handleCorrectMatch, handleIncorrectMatch, handleCampaignWin,            *)
(* handleReflexModeEnd, startTimer and, from inside startTimer, alert),    *)
(* the three module-level variables they share, and the calls they make    *)
(* to the AnalyticsManager sink and to the wrapped originals.              *)
(*                                                                         *)
(* One action is one synchronous invocation of a wrapper by the host.  The *)
(* calls it makes are recorded, in order, in `events`.                     *)
(***************************************************************************)
EXTENDS Integers, Sequences, FiniteSets, TLC

\* ------------------------------------------------------------------ bounds
MaxClock == 1       \* Date.now() ranges over 0..MaxClock
MaxTasks == 2       \* taskCounter is not incremented beyond this
MaxTimers == 2      \* startTimer installs at most this many alert wrappers

\* ------------------------------------------------------- JavaScript values
Null == -1                  \* the initial null of levelStartTime
NullId == "<null>"          \* the initial null of currentLevelId
Undefined == -2             \* a numeric host field that is undefined
Absent == "<undefined>"     \* a data attribute that is not set

\* ToNumber(null) is 0: Date.now() - null is Date.now().
ToNumber(v) == IF v = Null THEN 0 ELSE v

\* x || 'unknown' on a data attribute: undefined and '' are falsy.
OrUnknown(v) == IF v = Absent \/ v = "" THEN "unknown" ELSE v

\* ------------------------------------------------------------- host inputs
Levels == {1, 2}
Durations == {30}
\* What an original returns ("ret_*") or throws ("throw_*").
Returns == {"ret_7"}
Throws == {"throw_E"}
OrigResults == Returns \cup Throws

Card(value, match) == [dataset |-> TRUE, value |-> value, match |-> match]
NoDatasetCard == [dataset |-> FALSE, value |-> Absent, match |-> Absent]
CardAB == Card("A", "B")
\* window.gameState.flippedCards: undefined, or an array of cards.
NoFlipped == [defined |-> FALSE, cards |-> <<>>]
Flipped(cards) == [defined |-> TRUE, cards |-> cards]
FlippedInputs ==
    {NoFlipped, Flipped(<<CardAB>>),
     Flipped(<<CardAB, CardAB>>),
     Flipped(<<CardAB, Card("B", "A")>>),
     Flipped(<<Card("", Absent), CardAB>>),
     Flipped(<<CardAB, Card(Absent, "")>>),
     Flipped(<<NoDatasetCard, CardAB>>)}

\* window.gameState: missing, or an object with the fields the hooks read.
NoGameState == [exists |-> FALSE, flippedCards |-> NoFlipped,
                currentCampaignLevel |-> Undefined, turns |-> Undefined]
GameState(flipped, level, turns) ==
    [exists |-> TRUE, flippedCards |-> flipped,
     currentCampaignLevel |-> level, turns |-> turns]
\* The host states drawn for the hooks that read the flipped cards, the level
\* index and turn count, and the turn count alone.
MatchStates == {NoGameState} \cup {GameState(f, 2, 4) : f \in FlippedInputs}
WinStates == {NoGameState, GameState(NoFlipped, Undefined, 4),
              GameState(NoFlipped, 2, Undefined), GameState(NoFlipped, 2, 4)}
TurnStates == {NoGameState} \cup {GameState(NoFlipped, 2, t) : t \in {Undefined, 4}}

\* The optional host calculators (window.calculateXP, ...): present or not.
CalcXP(level, turns) == 50
CalcCampaignStars(level, turns) == 3
CalcReflexStars(turns) == 2

\* A notification message: a string (its characters) or some other value.
Chars(s) == [str |-> TRUE, chars |-> s]
NotAString == [str |-> FALSE, chars |-> <<>>]
TimesUp == <<"T", "i", "m", "e", "'", "s", " ", "U", "p">>
Messages == {Chars(TimesUp \o <<"!">>),
             Chars(<<"!", " ">> \o TimesUp),
             Chars(<<"G", "r", "e", "a", "t", " ", "j", "o", "b", "!">>),
             Chars(<<"T", "i", "m", "e", "'", "s", " ", "u", "p">>),
             NotAString}

\* String.prototype.includes
Includes(s, m) ==
    \E i \in 1..(Len(s) - Len(m) + 1) : SubSeq(s, i, i + Len(m) - 1) = m

\* -------------------------------------------------------------------- state
VARIABLES
    levelStartTime,     \* let levelStartTime = null
    currentLevelId,     \* let currentLevelId = null
    taskCounter,        \* let taskCounter = 0
    alertWrappers,      \* how many wrappers window.alert is under
    hostOps,            \* the operations the host had when the script loaded
    sinkKeeps,          \* whether the sink's metric accumulator is followed
    metricSet,          \* the keys the sink's metric accumulator holds
    clock,              \* what Date.now() returns
    call,               \* the last invocation made by the host
    events,             \* the calls and assignments it made, in order
    result,             \* what it returned or threw to the host
    run                 \* bookkeeping of the level run, for the properties

vars == <<levelStartTime, currentLevelId, taskCounter, alertWrappers,
          hostOps, sinkKeeps, metricSet, clock, call, events, result, run>>

\* ------------------------------------------------------------------- events
SinkCall(op, a) == [k |-> "sink", op |-> op, a |-> a, threw |-> FALSE]
\* An assignment to one of the script's variables, or to window.alert.
Write(var, value) == [k |-> "write", op |-> var, a |-> <<value>>]
\* A call to a wrapped original, with what it returned or threw.
OrigCall(op, a, res) == [k |-> "orig", op |-> op, a |-> a, res |-> res]

\* The sink for one invocation: every method works ("none"), or one of them
\* throws whenever it is called.
SinkOps == {"startLevel", "recordTask", "endLevel", "addRawMetric", "submitReport"}
SinkFaults == {"none"} \cup SinkOps
\* The faults that make a difference to a start, a match and an outcome hook.
StartFaults == {"none", "startLevel"}
MatchFaults == {"none", "recordTask"}
OutcomeFaults == {"none", "endLevel", "addRawMetric", "submitReport"}

\* The sink calls a try block makes when method `broken` throws: the calls up
\* to and including the first one to it; the catch clause swallows the error.
RECURSIVE UpToThrow(_, _)
UpToThrow(calls, broken) ==
    IF calls = <<>> THEN <<>>
    ELSE IF Head(calls).op = broken THEN <<[Head(calls) EXCEPT !.threw = TRUE]>>
    ELSE <<Head(calls)>> \o UpToThrow(Tail(calls), broken)

\* The sink's metric accumulator after a sequence of calls: addRawMetric sets
\* a key, and the set is emptied when a report has been submitted and when
\* the next level is started.  A call that threw had no effect.
RECURSIVE MetricsAfter(_, _)
MetricsAfter(held, evs) ==
    IF evs = <<>> THEN held
    ELSE LET e == Head(evs)
             next == IF e.k # "sink" \/ e.threw THEN held
                     ELSE IF e.op = "addRawMetric" THEN held \cup {e.a[1]}
                     ELSE IF e.op \in {"submitReport", "startLevel"} THEN {}
                     ELSE held
         IN MetricsAfter(next, Tail(evs))

\* What the sink's accumulator holds after an invocation's calls.
SinkMetrics(evs) == IF sinkKeeps THEN MetricsAfter(metricSet, evs) ELSE metricSet

\* The seven operations the script replaces on window.
Hooked == {"startGame", "startReflexMode", "handleCorrectMatch",
           "handleIncorrectMatch", "handleCampaignWin", "handleReflexModeEnd",
           "startTimer"}

\* original.call(this, ...) at the end of a wrapper.  The script captures
\* window[op] without looking at it: where the host had no such operation
\* the captured original is undefined and the call is a TypeError.
TypeError == "throw_TypeError"
Delegate(op, a, res) == IF op \in hostOps THEN <<OrigCall(op, a, res)>> ELSE <<>>
Outcome(op, res) == IF op \in hostOps THEN res ELSE TypeError

NoCall == [op |-> "none", a |-> <<>>, gs |-> NoGameState, at |-> 0,
           live |-> FALSE, reported |-> FALSE]
\* The level run as the host drives it: whether a start hook has run, whether
\* an outcome has been signalled since, the last start hook's call and clock,
\* whether it overwrote a live run, and, since that start hook, how many
\* recordTask calls and whether a submitReport call the sink has received.
NoRun == [started |-> FALSE, live |-> FALSE, overlap |-> FALSE,
          startOp |-> "none", startArgs |-> <<>>, startedAt |-> 0, tasks |-> 0,
          reported |-> FALSE]

\* The state after the script has loaded into a host that had the operations
\* `ops`, with the sink's accumulator followed or not.
Loaded(ops, keeps) ==
    /\ hostOps = ops
    /\ sinkKeeps = keeps
    /\ levelStartTime = Null
    /\ currentLevelId = NullId
    /\ taskCounter = 0
    /\ alertWrappers = 0
    /\ metricSet = {}
    /\ clock = 0
    /\ call = NoCall
    /\ events = <<>>
    /\ result = "none"
    /\ run = NoRun

\* A host with all seven operations.
Init == Loaded(Hooked, FALSE)

\* ----------------------------------------------------------- bookkeeping
Calls(evs, k, op) == SelectSeq(evs, LAMBDA e : e.k = k /\ e.op = op)

\* An invocation: the operation and its arguments, the host state it ran
\* under, the time it was made at and what the run was like then.
TheCall(op, a, gs) ==
    [op |-> op, a |-> a, gs |-> gs, at |-> clock,
     live |-> run.live, reported |-> run.reported]
RunStart(op, a) ==
    [started |-> TRUE, live |-> TRUE, overlap |-> run.live, startOp |-> op,
     startArgs |-> a, startedAt |-> clock, tasks |-> 0, reported |-> FALSE]
RunAfterMatch(evs) ==
    [run EXCEPT !.tasks = @ + Len(Calls(evs, "sink", "recordTask"))]
RunAfterOutcome(evs, outcome) ==
    [run EXCEPT !.reported = @ \/ Calls(evs, "sink", "submitReport") # <<>>,
                !.live = @ /\ ~outcome]

\* ------------------------------------------------------------ start hooks
\* A start hook that leaves the counter as it is.
StartGameHookKeepsCounter(level, now, broken) ==
    LET id == "campaign_level_" \o ToString(level) IN
    [currentLevelId |-> id, levelStartTime |-> now, taskCounter |-> taskCounter,
     sink |-> UpToThrow(<<SinkCall("startLevel", <<id>>)>>, broken)]

\* A start hook that records the start time only the first time.
StartGameHookStaleTime(level, now, broken) ==
    LET id == "campaign_level_" \o ToString(level) IN
    [currentLevelId |-> id,
     levelStartTime |-> IF levelStartTime = Null THEN now ELSE levelStartTime,
     taskCounter |-> 0,
     sink |-> UpToThrow(<<SinkCall("startLevel", <<id>>)>>, broken)]

\* The try block of the startGame wrapper: the three assignments, then the
\* sink call.
StartGameHook(level, now, broken) ==
    LET id == "campaign_level_" \o ToString(level) IN
    [currentLevelId |-> id, levelStartTime |-> now, taskCounter |-> 0,
     sink |-> UpToThrow(<<Write("currentLevelId", id),
                          Write("levelStartTime", now),
                          Write("taskCounter", 0),
                          SinkCall("startLevel", <<id>>)>>, broken)]

\* A wrapper that delegates inside its try block.
startGameInsideTry(level, broken, res) ==
    LET h == StartGameHook(level, clock, broken) IN
    /\ currentLevelId' = h.currentLevelId
    /\ levelStartTime' = h.levelStartTime
    /\ taskCounter' = h.taskCounter
    /\ events' = IF broken = "startLevel" THEN h.sink
                 ELSE h.sink \o <<OrigCall("startGame", <<level>>, res)>>
    /\ result' = IF broken = "startLevel" THEN "ret_undefined" ELSE res
    /\ call' = TheCall("startGame", <<level>>, NoGameState)
    /\ run' = RunStart("startGame", <<level>>)
    /\ metricSet' = SinkMetrics(events')
    /\ UNCHANGED <<hostOps, sinkKeeps, alertWrappers, clock>>

startGame(level, broken, res) ==
    LET h == StartGameHook(level, clock, broken) IN
    /\ currentLevelId' = h.currentLevelId
    /\ levelStartTime' = h.levelStartTime
    /\ taskCounter' = h.taskCounter
    /\ events' = h.sink \o Delegate("startGame", <<level>>, res)
    /\ result' = Outcome("startGame", res)
    /\ call' = TheCall("startGame", <<level>>, NoGameState)
    /\ run' = RunStart("startGame", <<level>>)
    /\ metricSet' = SinkMetrics(events')
    /\ UNCHANGED <<hostOps, sinkKeeps, alertWrappers, clock>>

\* A start hook that takes the new identity only once the sink has accepted
\* the level.
StartReflexModeHookLateId(now, broken) ==
    [currentLevelId |-> IF broken = "startLevel" THEN currentLevelId
                        ELSE "reflex_mode",
     levelStartTime |-> now, taskCounter |-> 0,
     sink |-> UpToThrow(<<SinkCall("startLevel", <<"reflex_mode">>)>>, broken)]

StartReflexModeHook(now, broken) ==
    [currentLevelId |-> "reflex_mode", levelStartTime |-> now, taskCounter |-> 0,
     sink |-> UpToThrow(<<Write("currentLevelId", "reflex_mode"),
                          Write("levelStartTime", now),
                          Write("taskCounter", 0),
                          SinkCall("startLevel", <<"reflex_mode">>)>>, broken)]

startReflexMode(broken, res) ==
    LET h == StartReflexModeHook(clock, broken) IN
    /\ currentLevelId' = h.currentLevelId
    /\ levelStartTime' = h.levelStartTime
    /\ taskCounter' = h.taskCounter
    /\ events' = h.sink \o Delegate("startReflexMode", <<>>, res)
    /\ result' = Outcome("startReflexMode", res)
    /\ call' = TheCall("startReflexMode", <<>>, NoGameState)
    /\ run' = RunStart("startReflexMode", <<>>)
    /\ metricSet' = SinkMetrics(events')
    /\ UNCHANGED <<hostOps, sinkKeeps, alertWrappers, clock>>

\* ------------------------------------------------------------ match hooks
\* A match hook that increments the counter after building the record.
IncorrectMatchHookStaleId(gs, levelId, counter, broken) ==
    LET cards == gs.flippedCards.cards IN
    IF ~gs.exists \/ ~gs.flippedCards.defined \/ Len(cards) # 2
    THEN [taskCounter |-> counter, sink |-> <<>>]
    ELSE IF ~cards[1].dataset \/ ~cards[2].dataset
    THEN [taskCounter |-> counter, sink |-> <<>>]
    ELSE LET card1Value == OrUnknown(cards[1].value)
             card2Value == OrUnknown(cards[2].value)
             expectedMatch == OrUnknown(cards[1].match)
         IN [taskCounter |-> counter + 1,
             sink |-> UpToThrow(
                 <<SinkCall("recordTask",
                            <<levelId, "task_" \o ToString(counter),
                              "Match: " \o card1Value, expectedMatch, card2Value,
                              0, 0>>)>>, broken)]

\* An incorrect-match hook that takes expected from the first card's
\* observed value.
IncorrectMatchHookUsesValue(gs, levelId, counter, broken) ==
    LET cards == gs.flippedCards.cards IN
    IF ~gs.exists \/ ~gs.flippedCards.defined \/ Len(cards) # 2
    THEN [taskCounter |-> counter, sink |-> <<>>]
    ELSE IF ~cards[1].dataset \/ ~cards[2].dataset
    THEN [taskCounter |-> counter, sink |-> <<>>]
    ELSE LET card1Value == OrUnknown(cards[1].value)
             card2Value == OrUnknown(cards[2].value)
         IN [taskCounter |-> counter + 1,
             sink |-> UpToThrow(
                 <<SinkCall("recordTask",
                            <<levelId, "task_" \o ToString(counter + 1),
                              "Match: " \o card1Value, card1Value, card2Value,
                              0, 0>>)>>, broken)]

\* A correct-match hook that takes expected from the declared match target.
CorrectMatchHookUsesTarget(gs, levelId, counter, broken) ==
    LET cards == gs.flippedCards.cards IN
    IF ~gs.exists \/ ~gs.flippedCards.defined \/ Len(cards) # 2
    THEN [taskCounter |-> counter, sink |-> <<>>]
    ELSE IF ~cards[1].dataset \/ ~cards[2].dataset
    THEN [taskCounter |-> counter, sink |-> <<>>]
    ELSE LET card1Value == OrUnknown(cards[1].value)
             card2Value == OrUnknown(cards[2].value)
         IN [taskCounter |-> counter + 1,
             sink |-> UpToThrow(
                 <<SinkCall("recordTask",
                            <<levelId, "task_" \o ToString(counter + 1),
                              "Match: " \o card1Value,
                              OrUnknown(cards[1].match), card2Value,
                              0, 0>>)>>, broken)]

\* The try block of the handleCorrectMatch wrapper.  Reading flippedCards of
\* a missing gameState, or value of a missing dataset, throws before the
\* counter is touched.
CorrectMatchHook(gs, levelId, counter, broken) ==
    LET cards == gs.flippedCards.cards IN
    IF ~gs.exists \/ ~gs.flippedCards.defined \/ Len(cards) # 2
    THEN [taskCounter |-> counter, sink |-> <<>>]
    ELSE IF ~cards[1].dataset \/ ~cards[2].dataset
    THEN [taskCounter |-> counter, sink |-> <<>>]
    ELSE LET card1Value == OrUnknown(cards[1].value)
             card2Value == OrUnknown(cards[2].value)
         IN [taskCounter |-> counter + 1,
             sink |-> UpToThrow(
                 <<Write("taskCounter", counter + 1),
                   SinkCall("recordTask",
                            <<levelId, "task_" \o ToString(counter + 1),
                              "Match: " \o card1Value, card1Value, card2Value,
                              0, 0>>)>>, broken)]

\* A wrapper that delegates first and instruments afterwards.
handleCorrectMatchOriginalFirst(gs, broken, res) ==
    LET h == CorrectMatchHook(gs, currentLevelId, taskCounter, broken) IN
    /\ taskCounter < MaxTasks
    /\ taskCounter' = h.taskCounter
    /\ events' = Delegate("handleCorrectMatch", <<>>, res) \o h.sink
    /\ result' = Outcome("handleCorrectMatch", res)
    /\ call' = TheCall("handleCorrectMatch", <<>>, gs)
    /\ run' = RunAfterMatch(h.sink)
    /\ metricSet' = SinkMetrics(events')
    /\ UNCHANGED <<hostOps, sinkKeeps, levelStartTime, currentLevelId,
                   alertWrappers, clock>>

handleCorrectMatch(gs, broken, res) ==
    LET h == CorrectMatchHook(gs, currentLevelId, taskCounter, broken) IN
    /\ taskCounter < MaxTasks
    /\ taskCounter' = h.taskCounter
    /\ events' = h.sink \o Delegate("handleCorrectMatch", <<>>, res)
    /\ result' = Outcome("handleCorrectMatch", res)
    /\ call' = TheCall("handleCorrectMatch", <<>>, gs)
    /\ run' = RunAfterMatch(h.sink)
    /\ metricSet' = SinkMetrics(events')
    /\ UNCHANGED <<hostOps, sinkKeeps, levelStartTime, currentLevelId,
                   alertWrappers, clock>>

IncorrectMatchHook(gs, levelId, counter, broken) ==
    LET cards == gs.flippedCards.cards IN
    IF ~gs.exists \/ ~gs.flippedCards.defined \/ Len(cards) # 2
    THEN [taskCounter |-> counter, sink |-> <<>>]
    ELSE IF ~cards[1].dataset \/ ~cards[2].dataset
    THEN [taskCounter |-> counter, sink |-> <<>>]
    ELSE LET card1Value == OrUnknown(cards[1].value)
             card2Value == OrUnknown(cards[2].value)
             expectedMatch == OrUnknown(cards[1].match)
         IN [taskCounter |-> counter + 1,
             sink |-> UpToThrow(
                 <<Write("taskCounter", counter + 1),
                   SinkCall("recordTask",
                            <<levelId, "task_" \o ToString(counter + 1),
                              "Match: " \o card1Value, expectedMatch, card2Value,
                              0, 0>>)>>, broken)]

handleIncorrectMatch(gs, broken, res) ==
    LET h == IncorrectMatchHook(gs, currentLevelId, taskCounter, broken) IN
    /\ taskCounter < MaxTasks
    /\ taskCounter' = h.taskCounter
    /\ events' = h.sink \o Delegate("handleIncorrectMatch", <<>>, res)
    /\ result' = Outcome("handleIncorrectMatch", res)
    /\ call' = TheCall("handleIncorrectMatch", <<>>, gs)
    /\ run' = RunAfterMatch(h.sink)
    /\ metricSet' = SinkMetrics(events')
    /\ UNCHANGED <<hostOps, sinkKeeps, levelStartTime, currentLevelId,
                   alertWrappers, clock>>

\* ---------------------------------------------------------- outcome hooks
Metric(key, value) == SinkCall("addRawMetric", <<key, value>>)

\* A campaign hook that submits in a finally clause, whatever failed before.
CampaignWinHookSubmitsAlways(gs, hasXP, hasStars, levelId, start, now, broken) ==
    LET submit == <<SinkCall("submitReport", <<>>)>> IN
    IF ~gs.exists THEN submit
    ELSE
    LET level == gs.currentCampaignLevel
        turns == gs.turns
        duration == now - ToNumber(start)
        xp == IF hasXP THEN CalcXP(level, turns) ELSE 0
        stars == IF hasStars THEN CalcCampaignStars(level, turns) ELSE 0
        rest == IF level = Undefined THEN <<>>
                ELSE <<Metric("level", ToString(level))>> \o
                     (IF turns = Undefined THEN <<>>
                      ELSE <<Metric("turns", ToString(turns)),
                             Metric("xp_earned", ToString(xp)),
                             Metric("stars", ToString(stars)),
                             Metric("mode", "campaign")>>)
    IN UpToThrow(<<SinkCall("endLevel", <<levelId, TRUE, duration, xp>>)>>
                 \o rest, broken) \o submit

\* The try block of the handleCampaignWin wrapper.  A missing gameState throws
\* at the first read; an undefined level or turn count throws at its
\* toString(), after the sink calls that precede it.
CampaignWinHook(gs, hasXP, hasStars, levelId, start, now, broken) ==
    IF ~gs.exists THEN <<>>
    ELSE
    LET level == gs.currentCampaignLevel
        turns == gs.turns
        duration == now - ToNumber(start)
        xp == IF hasXP THEN CalcXP(level, turns) ELSE 0
        stars == IF hasStars THEN CalcCampaignStars(level, turns) ELSE 0
        rest == IF level = Undefined THEN <<>>
                ELSE <<Metric("level", ToString(level))>> \o
                     (IF turns = Undefined THEN <<>>
                      ELSE <<Metric("turns", ToString(turns)),
                             Metric("xp_earned", ToString(xp)),
                             Metric("stars", ToString(stars)),
                             Metric("mode", "campaign"),
                             SinkCall("submitReport", <<>>)>>)
    IN UpToThrow(<<SinkCall("endLevel", <<levelId, TRUE, duration, xp>>)>> \o rest, broken)

handleCampaignWin(gs, hasXP, hasStars, broken, res) ==
    LET sink == CampaignWinHook(gs, hasXP, hasStars, currentLevelId,
                                levelStartTime, clock, broken) IN
    /\ events' = sink \o Delegate("handleCampaignWin", <<>>, res)
    /\ result' = Outcome("handleCampaignWin", res)
    /\ call' = TheCall("handleCampaignWin", <<>>, gs)
    /\ run' = RunAfterOutcome(sink, TRUE)
    /\ metricSet' = SinkMetrics(events')
    /\ UNCHANGED <<hostOps, sinkKeeps, levelStartTime, currentLevelId,
                   taskCounter, alertWrappers, clock>>

\* The try block of the handleReflexModeEnd wrapper.
ReflexModeEndHook(gs, hasStars, levelId, start, now, broken) ==
    IF ~gs.exists THEN <<>>
    ELSE
    LET turns == gs.turns
        duration == now - ToNumber(start)
        stars == IF hasStars THEN CalcReflexStars(turns) ELSE 0
        rest == IF turns = Undefined THEN <<>>
                ELSE <<Metric("moves", ToString(turns)),
                       Metric("stars", ToString(stars)),
                       Metric("mode", "reflex"),
                       SinkCall("submitReport", <<>>)>>
    IN UpToThrow(<<SinkCall("endLevel", <<levelId, TRUE, duration, 0>>)>> \o rest, broken)

handleReflexModeEnd(gs, hasStars, broken, res) ==
    LET sink == ReflexModeEndHook(gs, hasStars, currentLevelId, levelStartTime,
                                  clock, broken) IN
    /\ events' = sink \o Delegate("handleReflexModeEnd", <<>>, res)
    /\ result' = Outcome("handleReflexModeEnd", res)
    /\ call' = TheCall("handleReflexModeEnd", <<>>, gs)
    /\ run' = RunAfterOutcome(sink, TRUE)
    /\ metricSet' = SinkMetrics(events')
    /\ UNCHANGED <<hostOps, sinkKeeps, levelStartTime, currentLevelId,
                   taskCounter, alertWrappers, clock>>

\* ------------------------------------------------------ timer and alert
\* The startTimer wrapper calls the original first; when it returns, the
\* wrapper puts one more wrapper around whatever window.alert is by then.
\* A startTimer wrapper that wraps alert whatever the original did (in a
\* finally clause, or before calling the original).
WrappersAfterStartTimerAlways(n, res) == n + 1

WrappersAfterStartTimer(n, res) == IF res \in Returns THEN n + 1 ELSE n

startTimer(duration, res) ==
    /\ alertWrappers < MaxTimers
    /\ alertWrappers' =
          WrappersAfterStartTimer(alertWrappers, Outcome("startTimer", res))
    /\ events' = Delegate("startTimer", <<duration>>, res) \o
                 (IF alertWrappers' # alertWrappers
                  THEN <<Write("window.alert", alertWrappers')>> ELSE <<>>)
    /\ result' = Outcome("startTimer", res)
    /\ call' = TheCall("startTimer", <<duration>>, NoGameState)
    /\ run' = run
    /\ metricSet' = SinkMetrics(events')
    /\ UNCHANGED <<hostOps, sinkKeeps, levelStartTime, currentLevelId,
                   taskCounter, clock>>

IsTimeout(message) == message.str /\ Includes(message.chars, TimesUp)

\* An alert wrapper that reports every string message.
AlertHookNoMarker(message, gs, levelId, start, now, broken) ==
    IF ~message.str THEN <<>>
    ELSE UpToThrow(<<SinkCall("endLevel", <<levelId, FALSE, now - ToNumber(start), 0>>),
                     Metric("reason", "timeout")>>, broken)

\* The try block of one alert wrapper.  message.includes throws when the
\* message is not a string; the turn count is read after the first two sink
\* calls.
AlertHook(message, gs, levelId, start, now, broken) ==
    IF ~message.str THEN <<>>
    ELSE IF ~Includes(message.chars, TimesUp) THEN <<>>
    ELSE
    LET timeTaken == now - ToNumber(start)
        rest == IF ~gs.exists \/ gs.turns = Undefined THEN <<>>
                ELSE <<Metric("turns", ToString(gs.turns)),
                       SinkCall("submitReport", <<>>)>>
    IN UpToThrow(<<SinkCall("endLevel", <<levelId, FALSE, timeTaken, 0>>),
                   Metric("reason", "timeout")>> \o rest, broken)

\* An alert wrapper that returns after reporting a timeout.
AlertWrapperReturnsEarly(message, gs, levelId, start, now, broken, inner) ==
    AlertHook(message, gs, levelId, start, now, broken)
    \o (IF IsTimeout(message) THEN <<>> ELSE inner)

\* One alert wrapper: its try block, then the alert it captured, whose calls
\* are `inner`.
AlertWrapper(message, gs, levelId, start, now, broken, inner) ==
    AlertHook(message, gs, levelId, start, now, broken) \o inner

\* window.alert under n wrappers: the outermost (last installed) runs first,
\* down to the host's own alert.
RECURSIVE AlertChain(_, _, _, _, _, _, _, _)
AlertChain(n, message, gs, levelId, start, now, broken, res) ==
    IF n = 0 THEN <<OrigCall("alert", <<message>>, res)>>
    ELSE AlertWrapper(message, gs, levelId, start, now, broken,
                      AlertChain(n - 1, message, gs, levelId, start, now, broken, res))

alert(message, gs, broken, res) ==
    LET evs == AlertChain(alertWrappers, message, gs, currentLevelId,
                          levelStartTime, clock, broken, res) IN
    /\ events' = evs
    /\ result' = res
    /\ call' = TheCall("alert", <<message>>, gs)
    /\ run' = RunAfterOutcome(evs, alertWrappers > 0 /\ IsTimeout(message))
    /\ metricSet' = SinkMetrics(events')
    /\ UNCHANGED <<hostOps, sinkKeeps, levelStartTime, currentLevelId,
                   taskCounter, alertWrappers, clock>>

\* Time passes between two invocations.
Tick ==
    /\ clock < MaxClock
    /\ clock' = clock + 1
    /\ UNCHANGED <<hostOps, sinkKeeps, metricSet, levelStartTime,
                   currentLevelId, taskCounter, alertWrappers, call, events,
                   result, run>>

\* ------------------------------------------------------------------- spec
\* The inputs of one invocation, without those that cannot make a difference:
\* a sink fault in a method the try block never reaches, or a calculator
\* where the host state is unreadable.
Recordable(gs) ==
    /\ gs.exists /\ gs.flippedCards.defined /\ Len(gs.flippedCards.cards) = 2
    /\ \A i \in 1..2 : gs.flippedCards.cards[i].dataset
MatchInputs ==
    {[gs |-> gs, broken |-> b] : gs \in MatchStates, b \in MatchFaults}
    \ {x \in [gs : MatchStates, broken : {"recordTask"}] : ~Recordable(x.gs)}
Complete(gs) ==
    gs.exists /\ gs.currentCampaignLevel # Undefined /\ gs.turns # Undefined
OutcomeInputs(states) ==
    {[gs |-> gs, calc |-> c, broken |-> b] :
        gs \in states, c \in BOOLEAN, b \in OutcomeFaults}
    \ {x \in [gs : states, calc : BOOLEAN, broken : OutcomeFaults] :
          \/ ~x.gs.exists /\ (x.calc \/ x.broken # "none")
          \/ ~Complete(x.gs) /\ (x.calc \/ x.broken = "submitReport")}
AlertInputs ==
    {[message |-> m, gs |-> gs, broken |-> b] :
        m \in Messages, gs \in TurnStates, b \in OutcomeFaults}
    \ {x \in [message : Messages, gs : TurnStates, broken : OutcomeFaults] :
          \/ ~IsTimeout(x.message) /\ (x.gs # NoGameState \/ x.broken # "none")
          \/ ~Complete(x.gs) /\ x.broken = "submitReport"}

\* What the host and the sink may do in one invocation.
AllInputs ==
    [levels |-> Levels, startFaults |-> StartFaults, match |-> MatchInputs,
     win |-> OutcomeInputs(WinStates), reflex |-> OutcomeInputs(TurnStates),
     alert |-> AlertInputs, results |-> OrigResults]

Step(I) ==
    \/ \E level \in I.levels, broken \in I.startFaults, res \in I.results :
          startGame(level, broken, res)
    \/ \E broken \in I.startFaults, res \in I.results : startReflexMode(broken, res)
    \/ \E x \in I.match, res \in I.results :
          handleCorrectMatch(x.gs, x.broken, res)
    \/ \E x \in I.match, res \in I.results :
          handleIncorrectMatch(x.gs, x.broken, res)
    \/ \E x \in I.win, res \in I.results :
          handleCampaignWin(x.gs, x.calc, x.calc, x.broken, res)
    \/ \E x \in I.reflex, res \in I.results :
          handleReflexModeEnd(x.gs, x.calc, x.broken, res)
    \/ \E duration \in Durations, res \in I.results : startTimer(duration, res)
    \/ \E x \in I.alert, res \in I.results :
          alert(x.message, x.gs, x.broken, res)
    \/ Tick

Next == Step(AllInputs)
Spec == Init /\ [][Next]_vars

\* The same operations, with the full range of inputs for some and one or two
\* ordinary inputs for the others.
Ordinary == GameState(NoFlipped, 2, 4)
OrdinaryOutcome == {[gs |-> Ordinary, calc |-> FALSE, broken |-> "none"]}
OrdinaryAlert ==
    {[message |-> m, gs |-> Ordinary, broken |-> "none"] :
        m \in {Chars(TimesUp \o <<"!">>)}}
    \cup {x \in AlertInputs : ~IsTimeout(x.message) /\ x.message.str
                              /\ Head(x.message.chars) = "G"}
OrdinaryMatch ==
    {x \in MatchInputs : x.broken = "none" /\
        x.gs.flippedCards \in {NoFlipped, Flipped(<<CardAB, CardAB>>)} /\ x.gs.exists}

\* Match attempts in full; ordinary outcomes and notifications.
TaskInputs ==
    [AllInputs EXCEPT !.win = OrdinaryOutcome, !.reflex = OrdinaryOutcome,
                      !.alert = OrdinaryAlert, !.results = Returns]
NextTasks == Step(TaskInputs)
SpecTasks == Init /\ [][NextTasks]_vars

\* Outcomes and notifications in full; ordinary starts and match attempts.
ReportInputs ==
    [AllInputs EXCEPT !.levels = {1}, !.startFaults = {"none"},
                      !.match = OrdinaryMatch, !.results = Returns]
NextReports == Step(ReportInputs)
SpecReports == Init /\ [][NextReports]_vars

\* Outcomes and notifications under every host state, with a sink that never
\* throws and whose metric accumulator is followed.
MetricInputs ==
    [ReportInputs EXCEPT !.win = {x \in @ : x.broken = "none"},
                         !.reflex = {x \in @ : x.broken = "none"},
                         !.alert = {x \in @ : x.broken = "none"}]
InitMetrics == Loaded(Hooked, TRUE)
NextMetrics == Step(MetricInputs)
SpecMetrics == InitMetrics /\ [][NextMetrics]_vars

\* Every operation with and without a failing try block, and originals
\* that return or throw.
CallInputs ==
    [AllInputs EXCEPT
        !.levels = {1},
        !.match = {x \in MatchInputs :
                      \/ x.gs = NoGameState
                      \/ x.gs.flippedCards = Flipped(<<CardAB, CardAB>>)},
        !.win = {x \in OutcomeInputs(WinStates) :
                    ~x.calc /\ x.broken \in {"none", "endLevel"} /\
                    (Complete(x.gs) \/ x.broken = "none")},
        !.reflex = {x \in OutcomeInputs(TurnStates) :
                    ~x.calc /\ x.broken \in {"none", "endLevel"} /\
                    (Complete(x.gs) \/ x.broken = "none")},
        !.alert = {x \in AlertInputs : 
                    x.broken \in {"none", "endLevel"} /\
                    (Complete(x.gs) \/ x.broken = "none") /\
                    (x.message.str => Head(x.message.chars) \in {"T", "G"})}]
NextCalls == Step(CallInputs)
SpecCalls == Init /\ [][NextCalls]_vars

\* The script loaded into a host with or without the optional reflex mode.
OptionalOps == {{"startReflexMode", "handleReflexModeEnd"}, {}}
InitAttach == \E missing \in OptionalOps : Loaded(Hooked \ missing, FALSE)
SpecAttach == InitAttach /\ [][NextCalls]_vars

\* ------------------------------------------------------------- properties
StartOps == {"startGame", "startReflexMode"}
MatchOps == {"handleCorrectMatch", "handleIncorrectMatch"}
OutcomeOps == {"handleCampaignWin", "handleReflexModeEnd"}
ReportOps == {"endLevel", "addRawMetric", "submitReport"}

\* The calls of the last invocation: those to the originals, those to one
\* sink method, those to the reporting methods of the sink.
Originals == SelectSeq(events, LAMBDA e : e.k = "orig")
Sink(op) == Calls(events, "sink", op)
Reporting == SelectSeq(events, LAMBDA e : e.k = "sink" /\ e.op \in ReportOps)
SomeThrew == \E i \in 1..Len(events) : events[i].k = "sink" /\ events[i].threw
TimeoutAlert == call.op = "alert" /\ IsTimeout(call.a[1])

\* C1: every invocation of one of the seven wrappers calls its original
\* exactly once, with the arguments the wrapper was given, and hands the
\* original's result to the caller, whether or not the try block failed.
C1_WrapperDelegatesOnce ==
    call.op \in Hooked =>
        /\ Len(Originals) = 1
        /\ Originals[1].op = call.op
        /\ Originals[1].a = call.a
        /\ result = Originals[1].res

\* A wrapper whose try block failed (the sink threw, or gameState is missing)
\* and that still delegated and returned the original's value.
C1_Witness ==
    /\ call.op = "handleCampaignWin"
    /\ ~call.gs.exists
    /\ Len(Originals) = 1
    /\ result \in Returns

\* C2: an outcome hook invoked while a level run is live makes exactly one
\* submitReport call, whatever host state it reads and whatever the sink does.
C2_OneSubmitPerOutcome ==
    (call.op \in OutcomeOps /\ call.live) => Len(Sink("submitReport")) = 1

\* C3: once startTimer has been called, however often, a "Time's Up"
\* notification makes exactly one failure report: one endLevel call with
\* success = false, one addRawMetric('reason', 'timeout'), one submitReport.
\* Stated here for the notifications raised during a live run, with a
\* readable host state and a working sink.
C3_OneFailureReportPerTimeout ==
    (TimeoutAlert /\ alertWrappers >= 1 /\ call.live /\ Complete(call.gs)
     /\ ~SomeThrew) =>
        /\ Len(Sink("endLevel")) = 1
        /\ Sink("endLevel")[1].a[2] = FALSE
        /\ Len(SelectSeq(Sink("addRawMetric"),
                         LAMBDA e : e.a = <<"reason", "timeout">>)) = 1
        /\ Len(Sink("submitReport")) = 1

\* C4: once a report has been submitted for a level run, a further outcome
\* signal for that run submits no second one.
C4_NoSecondSubmitForRun ==
    (run.started /\ call.reported /\
     (call.op \in OutcomeOps \/ (TimeoutAlert /\ alertWrappers >= 1))) =>
        Sink("submitReport") = <<>>

\* C5: a notification whose message does not contain "Time's Up" makes no
\* endLevel, addRawMetric or submitReport call, under any number of wrappers.
C5_OtherAlertsReportNothing ==
    (call.op = "alert" /\ ~IsTimeout(call.a[1])) => Reporting = <<>>

\* "Great job!" raised under two alert wrappers.
C5_Witness ==
    /\ call.op = "alert"
    /\ call.a[1].str /\ ~IsTimeout(call.a[1])
    /\ alertWrappers >= 2
    /\ run.live
    /\ Reporting = <<>>

\* C6: a notification raised through the wrapped alert reaches the host's
\* own alert exactly once, with the same message, whether or not it matched,
\* whether or not it is a string and whether or not the try block failed.
C6_AlertForwardedOnce ==
    (call.op = "alert" /\ alertWrappers >= 1) =>
        /\ Len(Originals) = 1
        /\ Originals[1].op = "alert"
        /\ Originals[1].a = call.a
        /\ Originals[1] = events[Len(events)]

\* A timeout notification under two wrappers whose try block failed.
C6_Witness ==
    /\ TimeoutAlert
    /\ alertWrappers >= 2
    /\ SomeThrew
    /\ Len(Originals) = 1

\* The level identity the last start hook stands for.
StartedId ==
    IF run.startOp = "startGame"
    THEN "campaign_level_" \o ToString(run.startArgs[1])
    ELSE "reflex_mode"

\* C7: when a start hook overwrites a live run, the first task record handed
\* to the sink afterwards is task_1 of the new level.
C7_CounterRestartsOnOverwrite ==
    (run.overlap /\ run.tasks = 1 /\ Sink("recordTask") # <<>>) =>
        /\ Sink("recordTask")[1].a[2] = "task_1"
        /\ Sink("recordTask")[1].a[1] = StartedId

\* Level 2 started over the live run of another level, then one task.
C7_Witness ==
    /\ run.overlap /\ run.tasks = 1 /\ Sink("recordTask") # <<>>
    /\ run.startOp = "startGame" /\ run.startArgs = <<2>>
    /\ Sink("recordTask")[1].a[1] = "campaign_level_2"

\* C8: the k-th recordTask call of a level run carries taskId "task_k".
C8_TaskIdsCountFromOne ==
    (run.started /\ call.op \in MatchOps) =>
        /\ Len(Sink("recordTask")) <= 1
        /\ \A i \in 1..Len(Sink("recordTask")) :
              Sink("recordTask")[i].a[2] = "task_" \o ToString(run.tasks)

\* The second record of a run, from a recordTask call that threw.
C8_Witness ==
    /\ run.started /\ call.op \in MatchOps /\ run.tasks = 2
    /\ Len(Sink("recordTask")) = 1
    /\ Sink("recordTask")[1].threw
    /\ Sink("recordTask")[1].a[2] = "task_2"

\* C9: the duration an outcome hook hands to endLevel during a live run is
\* the clock at the outcome minus the clock at the last start hook, and is
\* not negative.
C9_DurationSinceLastStart ==
    (call.live /\ (call.op \in OutcomeOps \/ TimeoutAlert)) =>
        \A i \in 1..Len(Sink("endLevel")) :
            /\ Sink("endLevel")[i].a[3] = call.at - run.startedAt
            /\ Sink("endLevel")[i].a[3] >= 0

\* A campaign level won some time after it was started.
C9_Witness ==
    /\ call.live /\ call.op = "handleCampaignWin"
    /\ call.at > run.startedAt
    /\ Len(Sink("endLevel")) = 1
    /\ Sink("endLevel")[1].a[3] >= 1

\* Two flipped cards whose data-value attributes are both set.
BothValuesPresent(gs) ==
    /\ gs.exists /\ gs.flippedCards.defined /\ Len(gs.flippedCards.cards) = 2
    /\ \A i \in 1..2 : /\ gs.flippedCards.cards[i].dataset
                       /\ gs.flippedCards.cards[i].value \notin {Absent, ""}

\* C10: handleCorrectMatch on two cards with observed values records
\* expected = the first card's value and actual = the second card's value.
C10_CorrectMatchValues ==
    (call.op = "handleCorrectMatch" /\ BothValuesPresent(call.gs)) =>
        /\ Len(Sink("recordTask")) = 1
        /\ Sink("recordTask")[1].a[4] = call.gs.flippedCards.cards[1].value
        /\ Sink("recordTask")[1].a[5] = call.gs.flippedCards.cards[2].value

\* Two cards that both show "A": expected = actual = "A".
C10_Witness ==
    /\ call.op = "handleCorrectMatch"
    /\ BothValuesPresent(call.gs)
    /\ call.gs.flippedCards.cards[1].value = "A"
    /\ call.gs.flippedCards.cards[2].value = "A"
    /\ Len(Sink("recordTask")) = 1
    /\ Sink("recordTask")[1].a[4] = "A" /\ Sink("recordTask")[1].a[5] = "A"

\* Two flipped cards, the first with its data-match attribute set and the
\* second with its data-value attribute set.
TargetAndValuePresent(gs) ==
    /\ gs.exists /\ gs.flippedCards.defined /\ Len(gs.flippedCards.cards) = 2
    /\ \A i \in 1..2 : gs.flippedCards.cards[i].dataset
    /\ gs.flippedCards.cards[1].match \notin {Absent, ""}
    /\ gs.flippedCards.cards[2].value \notin {Absent, ""}

\* C11: handleIncorrectMatch on two cards records expected = the first
\* card's declared match target (data-match, not its data-value) and
\* actual = the second card's observed value.
C11_IncorrectMatchValues ==
    (call.op = "handleIncorrectMatch" /\ TargetAndValuePresent(call.gs)) =>
        /\ Len(Sink("recordTask")) = 1
        /\ Sink("recordTask")[1].a[4] = call.gs.flippedCards.cards[1].match
        /\ Sink("recordTask")[1].a[5] = call.gs.flippedCards.cards[2].value

\* A first card showing "A" that declares the target "B", and a second card
\* showing "A": expected = "B", which is not the first card's value.
C11_Witness ==
    /\ call.op = "handleIncorrectMatch"
    /\ TargetAndValuePresent(call.gs)
    /\ call.gs.flippedCards.cards[1].value = "A"
    /\ call.gs.flippedCards.cards[1].match = "B"
    /\ call.gs.flippedCards.cards[2].value = "A"
    /\ Len(Sink("recordTask")) = 1
    /\ Sink("recordTask")[1].a[4] = "B" /\ Sink("recordTask")[1].a[5] = "A"

\* The metric keys an invocation's own addRawMetric calls set before its
\* i-th call.
WrittenBefore(evs, i) ==
    {evs[j].a[1] : j \in {j \in 1..(i - 1) : /\ evs[j].k = "sink"
                                             /\ evs[j].op = "addRawMetric"
                                             /\ ~evs[j].threw}}

\* C12: the metric set a submitted report carries holds only keys that the
\* invocation submitting it wrote: nothing left in the accumulator by an
\* earlier invocation is part of it.  A step that leaves the clock alone is
\* an invocation; metricSet is the accumulator before it and events' are the
\* calls it made.
C12_NoStaleMetricsInReport ==
    [][clock' = clock =>
        \A i \in 1..Len(events') :
            (/\ events'[i].k = "sink"
             /\ events'[i].op = "submitReport"
             /\ ~events'[i].threw) =>
                MetricsAfter(metricSet, SubSeq(events', 1, i - 1))
                    \subseteq WrittenBefore(events', i)]_vars

\* C13: an operation the host did not have when the script loaded gets no
\* wrapper, so no invocation can end in a wrapper failing on its missing
\* original.
C13_NoWrapperForAbsentOperation ==
    ~(call.op \in Hooked \ hostOps /\ result = TypeError)

\* C14: an outcome hook invoked while no level run is live (before any start
\* hook, or after an earlier outcome of the run) hands no report to the sink:
\* it makes no endLevel and no submitReport call.
C14_NoReportWhileIdle ==
    (~call.live /\ (call.op \in OutcomeOps \/ (TimeoutAlert /\ alertWrappers >= 1)))
        => (Sink("endLevel") = <<>> /\ Sink("submitReport") = <<>>)

\* C15: a match hook invoked while no level run is live leaves the task
\* counter as it is and makes no recordTask call.  A step that ends in a
\* match invocation while the run was not live is such an invocation (a
\* clock tick leaves counter and calls alone).
C15_NoTaskWhileIdle ==
    [][(~run.live /\ call'.op \in MatchOps) =>
          /\ taskCounter' = taskCounter
          /\ (clock' = clock => Calls(events', "sink", "recordTask") = <<>>)]_vars

\* The original was called and threw.
OriginalThrew(evs) ==
    \E i \in 1..Len(evs) : evs[i].k = "orig" /\ evs[i].res \in Throws

\* C16: when the original of a hooked operation throws, the wrapper's caller
\* gets what it threw, and a startTimer call whose original throws wraps the
\* alert no further.  A step that leaves the clock alone is an invocation.
C16_OriginalErrorPropagates ==
    [][(clock' = clock /\ call'.op \in Hooked /\ OriginalThrew(events')) =>
          /\ result' \in Throws
          /\ \E i \in 1..Len(events') :
                events'[i].k = "orig" /\ result' = events'[i].res
          /\ (call'.op = "startTimer" => alertWrappers' = alertWrappers)]_vars

\* startTimer's original threw before any alert wrapper was installed.
C16_Witness ==
    /\ call.op = "startTimer"
    /\ OriginalThrew(events)
    /\ result \in Throws
    /\ alertWrappers = 0

\* The sink calls and assignments of the last invocation all come before its
\* call to the original.
InstrumentedFirst ==
    \A i, j \in 1..Len(events) :
        (events[i].k = "orig" /\ events[j].k \in {"sink", "write"}) => j < i

\* C17 as stated: in every invocation of a hooked operation, all sink calls
\* and all writes to the instrumentation state come before the call to the
\* original.
C17_HookBeforeOriginal == call.op \in Hooked => InstrumentedFirst

\* C17, amended: that order holds for every hooked operation but startTimer,
\* which calls the original first and wraps window.alert only after it has
\* returned.
C17_HookBeforeOriginalButTimer ==
    /\ call.op \in Hooked \ {"startTimer"} => InstrumentedFirst
    /\ call.op = "startTimer" =>
          \A i \in 1..Len(events) :
              events[i].k = "write" => (i = 2 /\ events[1].k = "orig")

\* A correct match whose counter write and recordTask call precede the
\* original, after a startTimer call has wrapped alert.
C17_Witness ==
    /\ call.op = "handleCorrectMatch"
    /\ Len(events) = 3
    /\ events[1].k = "write" /\ events[2].k = "sink" /\ events[3].k = "orig"
    /\ alertWrappers >= 1

\* C18: once a start hook has run, every recordTask and endLevel call carries
\* the identity set by the most recent start hook, and a start hook itself
\* makes no endLevel and no submitReport call, also when it overwrites a run
\* that has not ended.
C18_LastStartWins ==
    /\ run.started =>
          \A i \in 1..Len(events) :
              (events[i].k = "sink" /\ events[i].op \in {"recordTask", "endLevel"})
                  => events[i].a[1] = StartedId
    /\ call.op \in StartOps =>
          (Sink("endLevel") = <<>> /\ Sink("submitReport") = <<>>)

\* Reflex mode started over a run that had not ended, and then ended: the endLevel
\* call names reflex_mode.
C18_Witness ==
    /\ run.overlap /\ run.startOp = "startReflexMode"
    /\ call.op \in OutcomeOps
    /\ Len(Sink("endLevel")) = 1
    /\ Sink("endLevel")[1].a[1] = "reflex_mode"

\* What a record is to carry for an attribute: its value, or the sentinel
\* when it is not set or empty (as it is on an item without data attributes).
ValueOrSentinel(v) == IF v \in {Absent, ""} THEN "unknown" ELSE v

\* C19: a match hook that finds exactly two flipped items always hands one
\* task record to the sink, with "unknown" in place of each of label value,
\* expected and actual that cannot be read, whatever the items expose.
C19_UnknownInsteadOfDropping ==
    (/\ call.op \in MatchOps
     /\ call.gs.exists /\ call.gs.flippedCards.defined
     /\ Len(call.gs.flippedCards.cards) = 2) =>
        LET cards == call.gs.flippedCards.cards
            first == ValueOrSentinel(cards[1].value)
            target == ValueOrSentinel(cards[1].match)
        IN /\ Len(Sink("recordTask")) = 1
           /\ Sink("recordTask")[1].a[3] = "Match: " \o first
           /\ Sink("recordTask")[1].a[4] =
                 (IF call.op = "handleCorrectMatch" THEN first ELSE target)
           /\ Sink("recordTask")[1].a[5] = ValueOrSentinel(cards[2].value)

\* A sink call that was made and did not throw.
Made(e, op) == e.k = "sink" /\ e.op = op /\ ~e.threw

\* C20: every submitReport call is preceded, in the same invocation, by one
\* endLevel call and then by addRawMetric calls only: no other call comes
\* between that endLevel and the submitReport, and none of them threw.  A
\* hook that fails part-way leaves an endLevel without a submitReport, never
\* a submitReport without its endLevel.
C20_SubmitFollowsItsEndLevel ==
    \A i \in 1..Len(events) :
        (events[i].k = "sink" /\ events[i].op = "submitReport") =>
            \E j \in 1..(i - 2) :
                /\ Made(events[j], "endLevel")
                /\ \A m \in (j + 1)..(i - 1) : Made(events[m], "addRawMetric")

\* A timeout notification under two alert wrappers: two reports, each with
\* its own endLevel.
C20_Witness ==
    /\ TimeoutAlert
    /\ Len(Sink("endLevel")) = 2
    /\ Len(Sink("submitReport")) = 2
    /\ events[1].op = "endLevel" /\ events[4].op = "submitReport"
    /\ events[5].op = "endLevel" /\ events[8].op = "submitReport"

====
